---- MODULE Spec2Model ----
(***************************************************************************)
(* Model of Basic_Python/tasks_app/tasks_app.py: an interactive task       *)
(* tracker that loads a pipe-delimited text file at startup, mutates an    *)
(* in-memory list through a text menu and rewrites the file on exit.       *)
(*                                                                         *)
(* Every text (file content, input line, task field) is a sequence of      *)
(* one-character strings, so that strip, split, int() and the line format  *)
(* are computed as the code computes them.                                 *)
(*                                                                         *)
(* Environment assumptions: standard input always delivers a line (no      *)
(* end-of-file at a prompt); the wall clock read by datetime.now() does    *)
(* not go backwards within a session; opening, reading and writing the     *)
(* file may fail with an OSError.                                          *)
(***************************************************************************)
EXTENDS Integers, Sequences, FiniteSets, TLC

VARIABLES
    tasks,      \* the global list `tasks`: a sequence of task records
    file,       \* tasks.txt: [exists |-> BOOLEAN, content |-> text]
    file0,      \* tasks.txt as it was when the process started
    pc,         \* "start" | "menu" (top of the loop) | "prompt" (menu shown,
                \* waiting for the choice) | "exited" | "crashed"
    clock,      \* the latest second datetime.now() returned to the session
    inp,        \* the lines the last step read from standard input, in order
    out,        \* what the last step printed, in order
    ret         \* what handle_file returned, if it was called

vars == <<tasks, file, file0, pc, clock, inp, out, ret>>

\* ---------------------------------------------------------------- bounds
\* add_task is not taken once the list holds MaxTasks tasks
MaxTasks == 2
\* the wall clock runs over the seconds 0..MaxTime
MaxTime == 1

\* ------------------------------------------------------- python strings
Whitespace == {" ", "\t", "\n", "\r"}

DigitChars == <<"0", "1", "2", "3", "4", "5", "6", "7", "8", "9">>

DigitSet == {DigitChars[i] : i \in 1..10}

DigitValue(c) == (CHOOSE i \in 1..10 : DigitChars[i] = c) - 1

RECURSIVE LStrip(_)
LStrip(s) ==
    IF s # <<>> /\ Head(s) \in Whitespace THEN LStrip(Tail(s)) ELSE s

RECURSIVE RStrip(_)
RStrip(s) ==
    IF s # <<>> /\ s[Len(s)] \in Whitespace
    THEN RStrip(SubSeq(s, 1, Len(s) - 1))
    ELSE s

\* str.strip()
Strip(s) == RStrip(LStrip(s))

\* str.split(sep) for a one-character separator: k separators give k+1
\* fields, the empty string gives one empty field
RECURSIVE Split(_, _)
Split(s, sep) ==
    IF \A i \in 1..Len(s) : s[i] # sep
    THEN <<s>>
    ELSE LET k == CHOOSE i \in 1..Len(s) :
                      s[i] = sep /\ \A j \in 1..(i - 1) : s[j] # sep
         IN  <<SubSeq(s, 1, k - 1)>> \o Split(SubSeq(s, k + 1, Len(s)), sep)

\* iterating a text file: each line keeps its "\n"; a last line without
\* "\n" is yielded if it is not empty
RECURSIVE FileLines(_)
FileLines(s) ==
    IF s = <<>> THEN <<>>
    ELSE IF \A i \in 1..Len(s) : s[i] # "\n" THEN <<s>>
    ELSE LET k == CHOOSE i \in 1..Len(s) :
                      s[i] = "\n" /\ \A j \in 1..(i - 1) : s[j] # "\n"
         IN  <<SubSeq(s, 1, k)>> \o FileLines(SubSeq(s, k + 1, Len(s)))

RECURSIVE DigitsValue(_)
DigitsValue(s) ==
    IF s = <<>> THEN 0
    ELSE 10 * DigitsValue(SubSeq(s, 1, Len(s) - 1)) + DigitValue(s[Len(s)])

\* int(text): surrounding whitespace is ignored, an optional sign, then at
\* least one digit; anything else raises ValueError (ok = FALSE)
ParseInt(s) ==
    LET t    == Strip(s)
        neg  == t # <<>> /\ Head(t) = "-"
        sgn  == t # <<>> /\ Head(t) \in {"-", "+"}
        body == IF sgn THEN Tail(t) ELSE t
    IN  IF body # <<>> /\ \A i \in 1..Len(body) : body[i] \in DigitSet
        THEN [ok |-> TRUE,
              val |-> IF neg THEN 0 - DigitsValue(body) ELSE DigitsValue(body)]
        ELSE [ok |-> FALSE, val |-> 0]

TwoDigits(n) == <<DigitChars[(n \div 10) + 1], DigitChars[(n % 10) + 1]>>

\* datetime.datetime.now().strftime("%Y-%m-%d %H:%M:%S") at second t of
\* the day the session runs on
Strftime(t) ==
    <<"2", "0", "2", "6", "-", "1", "1", "-", "0", "6", " ">>
        \o TwoDigits((t \div 3600) % 24) \o <<":">>
        \o TwoDigits((t \div 60) % 60) \o <<":">>
        \o TwoDigits(t % 60)

\* the contents handle_file is tried on hold at most MaxContent characters
MaxContent == 3

\* ------------------------------------------------------------- constants
sOpen == <<"O", "p", "e", "n">>
sBlocked == <<"B", "l", "o", "c", "k", "e", "d">>
sInProgress == <<"I", "n", " ", "P", "r", "o", "g", "r", "e", "s", "s">>
sReview == <<"R", "e", "v", "i", "e", "w">>
sDone == <<"D", "o", "n", "e">>

STATUSES == <<sOpen, sBlocked, sInProgress, sReview, sDone>>

\* ---------------------------------------------------------------- output
Msg(text) == [text |-> text, args |-> <<>>]

MsgArgs(text, args) == [text |-> text, args |-> args]

display_menu ==
    <<Msg("--- Tasks List Menu ---"), Msg("1. View tasks"),
      Msg("2. Add a new task"), Msg("3. Edit a task"),
      Msg("4. Change task status"), Msg("5. Remove a task"), Msg("6. Exit")>>

\* ----------------------------------------------------------- persistence
\* one line of save_tasks
TaskLine(task) ==
    task.task \o <<"|">> \o task.status \o <<"|">> \o task.created_at
        \o <<"|">> \o task.status_updated_at \o <<"\n">>

\* everything save_tasks writes for the list ts
RECURSIVE SaveText(_)
SaveText(ts) ==
    IF ts = <<>> THEN <<>> ELSE TaskLine(Head(ts)) \o SaveText(Tail(ts))

\* load_tasks splitting the line as read, without strip()
LoadLineNoStrip(line) ==
    LET parts == Split(line, "|")
    IN  IF Len(parts) = 4
        THEN <<[task |-> parts[1], status |-> parts[2],
                created_at |-> parts[3], status_updated_at |-> parts[4]]>>
        ELSE <<>>

\* load_tasks keeping the first four fields of a longer line
LoadLineAtLeast4(line) ==
    LET parts == Split(Strip(line), "|")
    IN  IF Len(parts) >= 4
        THEN <<[task |-> parts[1], status |-> parts[2],
                created_at |-> parts[3], status_updated_at |-> parts[4]]>>
        ELSE <<>>

\* the fields of parts joined by '|'
RECURSIVE JoinBar(_)
JoinBar(parts) ==
    IF Len(parts) = 1 THEN parts[1]
    ELSE parts[1] \o <<"|">> \o JoinBar(Tail(parts))

\* load_tasks splitting from the right, line.rsplit("|", 3): the title
\* keeps its own '|'
LoadLineRsplit(line) ==
    LET parts == Split(Strip(line), "|")
        n     == Len(parts)
    IN  IF n >= 4
        THEN <<[task |-> JoinBar(SubSeq(parts, 1, n - 3)),
                status |-> parts[n - 2],
                created_at |-> parts[n - 1], status_updated_at |-> parts[n]]>>
        ELSE <<>>

\* the body of the loop of load_tasks for one line: the tasks it appends
LoadLine(line) ==
    LET parts == Split(Strip(line), "|")
    IN  IF Len(parts) = 4
        THEN <<[task |-> parts[1], status |-> parts[2],
                created_at |-> parts[3], status_updated_at |-> parts[4]]>>
        ELSE <<>>

RECURSIVE LoadLines(_)
LoadLines(lines) ==
    IF lines = <<>> THEN <<>>
    ELSE LoadLine(Head(lines)) \o LoadLines(Tail(lines))

\* load_tasks on a readable file: the list after the call
load_tasks(ts, f) ==
    IF f.exists THEN ts \o LoadLines(FileLines(f.content)) ELSE ts

\* the directory of the script, os.path.dirname(os.path.abspath(__file__))
ScriptDir == <<"/", "a", "p", "p">>

\* the default file name
FileName == <<"t", "a", "s", "k", "s", ".", "t", "x", "t">>

\* os.path.join(directory, name) for a relative name
PathJoin(directory, name) == directory \o <<"/">> \o name

\* handle_file returning file_path
PathResult(path) == [kind |-> "path", path |-> path]

\* handle_file returning None
NoneResult == [kind |-> "none", path |-> <<>>]

\* handle_file opening the file for writing whether it exists or not
handle_file_truncating(f, filename, raises) ==
    IF raises
    THEN [file |-> f, ret |-> NoneResult,
          out |-> <<Msg("Error handling file: {e}")>>]
    ELSE [file |-> [exists |-> TRUE, content |-> <<>>],
          ret |-> PathResult(PathJoin(ScriptDir, filename)), out |-> <<>>]

\* handle_file(filename) on the file f; raises = the body of the try raises
handle_file(f, filename, raises) ==
    IF raises
    THEN [file |-> f, ret |-> NoneResult,
          out |-> <<Msg("Error handling file: {e}")>>]
    ELSE IF ~f.exists
    THEN [file |-> [exists |-> TRUE, content |-> <<>>],
          ret |-> PathResult(PathJoin(ScriptDir, filename)), out |-> <<>>]
    ELSE [file |-> f, ret |-> PathResult(PathJoin(ScriptDir, filename)),
          out |-> <<>>]

\* ------------------------------------------------------- task operations
\* view_tasks numbering from 0
view_tasks_zero_based(ts) ==
    IF ts = <<>>
    THEN <<Msg("No tasks found!")>>
    ELSE <<Msg("Your Tasks:")>> \o
         [i \in 1..Len(ts) |->
             MsgArgs("{index}. {task} [{status}] Created: Last Status Change:",
                     <<i - 1, ts[i].task, ts[i].status, ts[i].created_at,
                       ts[i].status_updated_at>>)]

\* view_tasks: the lines it prints
view_tasks(ts) ==
    IF ts = <<>>
    THEN <<Msg("No tasks found!")>>
    ELSE <<Msg("Your Tasks:")>> \o
         [i \in 1..Len(ts) |->
             MsgArgs("{index}. {task} [{status}] Created: Last Status Change:",
                     <<i, ts[i].task, ts[i].status, ts[i].created_at,
                       ts[i].status_updated_at>>)]

\* add_task testing the line as typed, before strip()
add_task_untrimmed_test(ts, line, now) ==
    LET task_name == Strip(line)
        stamp     == Strftime(now)
    IN  IF line # <<>>
        THEN [tasks |-> Append(ts, [task |-> task_name, status |-> sOpen,
                                    created_at |-> stamp,
                                    status_updated_at |-> stamp]),
              out   |-> <<MsgArgs("Task added successfully with status 'Open'.",
                                  <<task_name>>)>>,
              timed |-> TRUE]
        ELSE [tasks |-> ts, out |-> <<>>, timed |-> FALSE]

\* add_task storing the line as typed
add_task_raw(ts, line, now) ==
    LET task_name == Strip(line)
        stamp     == Strftime(now)
    IN  IF task_name # <<>>
        THEN [tasks |-> Append(ts, [task |-> line, status |-> sOpen,
                                    created_at |-> stamp,
                                    status_updated_at |-> stamp]),
              out   |-> <<MsgArgs("Task added successfully with status 'Open'.",
                                  <<task_name>>)>>,
              timed |-> TRUE]
        ELSE [tasks |-> ts, out |-> <<>>, timed |-> FALSE]

\* add_task on the input line `line` when datetime.now() is second `now`
add_task(ts, line, now) ==
    LET task_name == Strip(line)
        stamp     == Strftime(now)
    IN  IF task_name # <<>>
        THEN [tasks |-> Append(ts, [task |-> task_name, status |-> sOpen,
                                    created_at |-> stamp,
                                    status_updated_at |-> stamp]),
              out   |-> <<MsgArgs("Task added successfully with status 'Open'.",
                                  <<task_name>>)>>,
              timed |-> TRUE]
        ELSE [tasks |-> ts, out |-> <<>>, timed |-> FALSE]

\* the status lines printed by update_task_status
StatusLines ==
    <<Msg("Available statuses:")>> \o
    [i \in 1..Len(STATUSES) |-> MsgArgs("{i}. {status}", <<i, STATUSES[i]>>)]

\* update_task_status that also stamps created_at
update_task_status_created(ts, l1, l2, now) ==
    LET n1    == ParseInt(l1)
        index == n1.val - 1
        n2    == ParseInt(l2)
        status_choice == n2.val - 1
        invalid == Msg("Please enter a valid number.")
    IN  IF ts = <<>>
        THEN [tasks |-> ts, reads |-> 0, timed |-> FALSE,
              out |-> view_tasks(ts)
                      \o <<Msg("No tasks available to update status.")>>]
        ELSE IF ~n1.ok
        THEN [tasks |-> ts, reads |-> 1, timed |-> FALSE,
              out |-> view_tasks(ts) \o <<invalid>>]
        ELSE IF ~(0 <= index /\ index < Len(ts))
        THEN [tasks |-> ts, reads |-> 1, timed |-> FALSE,
              out |-> view_tasks(ts)]
        ELSE IF ~n2.ok
        THEN [tasks |-> ts, reads |-> 2, timed |-> FALSE,
              out |-> view_tasks(ts) \o StatusLines \o <<invalid>>]
        ELSE IF ~(0 <= status_choice /\ status_choice < Len(STATUSES))
        THEN [tasks |-> ts, reads |-> 2, timed |-> FALSE,
              out |-> view_tasks(ts) \o StatusLines]
        ELSE [tasks |-> [ts EXCEPT ![index + 1].status = STATUSES[status_choice + 1],
                                   ![index + 1].status_updated_at = Strftime(now),
                                   ![index + 1].created_at = Strftime(now)],
              reads |-> 2, timed |-> TRUE,
              out |-> view_tasks(ts) \o StatusLines
                      \o <<MsgArgs("Task status updated.", <<ts[index + 1].task>>)>>]

\* update_task_status that stamps the task before it reads the status number
update_task_status_early_stamp(ts, l1, l2, now) ==
    LET n1    == ParseInt(l1)
        index == n1.val - 1
        n2    == ParseInt(l2)
        status_choice == n2.val - 1
        invalid == Msg("Please enter a valid number.")
    IN  IF ts = <<>>
        THEN [tasks |-> ts, reads |-> 0, timed |-> FALSE,
              out |-> view_tasks(ts)
                      \o <<Msg("No tasks available to update status.")>>]
        ELSE IF ~n1.ok
        THEN [tasks |-> ts, reads |-> 1, timed |-> FALSE,
              out |-> view_tasks(ts) \o <<invalid>>]
        ELSE IF ~(0 <= index /\ index < Len(ts))
        THEN [tasks |-> ts, reads |-> 1, timed |-> FALSE,
              out |-> view_tasks(ts)]
        ELSE IF ~n2.ok
        THEN [tasks |-> [ts EXCEPT ![index + 1].status_updated_at = Strftime(now)],
              reads |-> 2, timed |-> FALSE,
              out |-> view_tasks(ts) \o StatusLines \o <<invalid>>]
        ELSE IF ~(0 <= status_choice /\ status_choice < Len(STATUSES))
        THEN [tasks |-> ts, reads |-> 2, timed |-> FALSE,
              out |-> view_tasks(ts) \o StatusLines]
        ELSE [tasks |-> [ts EXCEPT ![index + 1].status = STATUSES[status_choice + 1],
                                   ![index + 1].status_updated_at = Strftime(now)],
              reads |-> 2, timed |-> TRUE,
              out |-> view_tasks(ts) \o StatusLines
                      \o <<MsgArgs("Task status updated.", <<ts[index + 1].task>>)>>]

\* update_task_status without the lower bound on the status number: a
\* negative list index counts from the end of STATUSES
update_task_status_negative_choice(ts, l1, l2, now) ==
    LET n1    == ParseInt(l1)
        index == n1.val - 1
        n2    == ParseInt(l2)
        status_choice == n2.val - 1
        invalid == Msg("Please enter a valid number.")
    IN  IF ts = <<>>
        THEN [tasks |-> ts, reads |-> 0, timed |-> FALSE,
              out |-> view_tasks(ts)
                      \o <<Msg("No tasks available to update status.")>>]
        ELSE IF ~n1.ok
        THEN [tasks |-> ts, reads |-> 1, timed |-> FALSE,
              out |-> view_tasks(ts) \o <<invalid>>]
        ELSE IF ~(0 <= index /\ index < Len(ts))
        THEN [tasks |-> ts, reads |-> 1, timed |-> FALSE,
              out |-> view_tasks(ts)]
        ELSE IF ~n2.ok
        THEN [tasks |-> ts, reads |-> 2, timed |-> FALSE,
              out |-> view_tasks(ts) \o StatusLines \o <<invalid>>]
        ELSE IF ~(0 - Len(STATUSES) <= status_choice /\ status_choice < Len(STATUSES))
        THEN [tasks |-> ts, reads |-> 2, timed |-> FALSE,
              out |-> view_tasks(ts) \o StatusLines]
        ELSE [tasks |-> [ts EXCEPT ![index + 1].status =
                                        STATUSES[(status_choice % Len(STATUSES)) + 1],
                                   ![index + 1].status_updated_at = Strftime(now)],
              reads |-> 2, timed |-> TRUE,
              out |-> view_tasks(ts) \o StatusLines
                      \o <<MsgArgs("Task status updated.", <<ts[index + 1].task>>)>>]

\* update_task_status on the input lines `l1` (task number) and `l2`
\* (status number); reads = how many of them it consumed
update_task_status(ts, l1, l2, now) ==
    LET n1    == ParseInt(l1)
        index == n1.val - 1
        n2    == ParseInt(l2)
        status_choice == n2.val - 1
        invalid == Msg("Please enter a valid number.")
    IN  IF ts = <<>>
        THEN [tasks |-> ts, reads |-> 0, timed |-> FALSE,
              out |-> view_tasks(ts)
                      \o <<Msg("No tasks available to update status.")>>]
        ELSE IF ~n1.ok
        THEN [tasks |-> ts, reads |-> 1, timed |-> FALSE,
              out |-> view_tasks(ts) \o <<invalid>>]
        ELSE IF ~(0 <= index /\ index < Len(ts))
        THEN [tasks |-> ts, reads |-> 1, timed |-> FALSE,
              out |-> view_tasks(ts)]
        ELSE IF ~n2.ok
        THEN [tasks |-> ts, reads |-> 2, timed |-> FALSE,
              out |-> view_tasks(ts) \o StatusLines \o <<invalid>>]
        ELSE IF ~(0 <= status_choice /\ status_choice < Len(STATUSES))
        THEN [tasks |-> ts, reads |-> 2, timed |-> FALSE,
              out |-> view_tasks(ts) \o StatusLines]
        ELSE [tasks |-> [ts EXCEPT ![index + 1].status = STATUSES[status_choice + 1],
                                   ![index + 1].status_updated_at = Strftime(now)],
              reads |-> 2, timed |-> TRUE,
              out |-> view_tasks(ts) \o StatusLines
                      \o <<MsgArgs("Task status updated.", <<ts[index + 1].task>>)>>]

\* pop of the element after the one asked for
PopNext(ts, index) ==
    SubSeq(ts, 1, index + 1) \o SubSeq(ts, index + 3, Len(ts))

\* list.pop(index) for a 0-based index inside the list: the list left
Pop(ts, index) ==
    SubSeq(ts, 1, index) \o SubSeq(ts, index + 2, Len(ts))

\* remove_task without the lower bound check: list.pop counts a negative
\* index from the end of the list
remove_task_no_lower_bound(ts, l1) ==
    LET n1    == ParseInt(l1)
        index == n1.val - 1
        at    == IF index < 0 THEN Len(ts) + index ELSE index
    IN  IF ts = <<>>
        THEN [tasks |-> ts, reads |-> 0, out |-> view_tasks(ts)]
        ELSE IF ~n1.ok
        THEN [tasks |-> ts, reads |-> 1,
              out |-> view_tasks(ts) \o <<Msg("Please enter a valid number.")>>]
        ELSE IF ~(index < Len(ts)) \/ at < 0
        THEN [tasks |-> ts, reads |-> 1, out |-> view_tasks(ts)]
        ELSE [tasks |-> SubSeq(ts, 1, at) \o SubSeq(ts, at + 2, Len(ts)),
              reads |-> 1,
              out |-> view_tasks(ts)
                      \o <<MsgArgs("Task removed successfully!",
                                   <<ts[at + 1].task>>)>>]

\* remove_task on the input line `l1` (task number)
remove_task(ts, l1) ==
    LET n1    == ParseInt(l1)
        index == n1.val - 1
    IN  IF ts = <<>>
        THEN [tasks |-> ts, reads |-> 0, out |-> view_tasks(ts)]
        ELSE IF ~n1.ok
        THEN [tasks |-> ts, reads |-> 1,
              out |-> view_tasks(ts) \o <<Msg("Please enter a valid number.")>>]
        ELSE IF ~(0 <= index /\ index < Len(ts))
        THEN [tasks |-> ts, reads |-> 1, out |-> view_tasks(ts)]
        ELSE [tasks |-> Pop(ts, index), reads |-> 1,
              out |-> view_tasks(ts)
                      \o <<MsgArgs("Task removed successfully!",
                                   <<ts[index + 1].task>>)>>]

\* ------------------------------------------------------------ environment
\* the decimal text of a small integer, as a user types it
IntText(n) ==
    IF n < 0 THEN <<"-", DigitChars[(0 - n) + 1]>> ELSE <<DigitChars[n + 1]>>

\* lines typed at the menu prompt
ChoiceInputs ==
    {<<"1">>, <<"2">>, <<"3">>, <<"4">>, <<"5">>, <<" ", "6">>,
     <<"7">>, <<"x">>, <<>>}

\* the lines of ChoiceInputs that main compares equal to `digit`
Typed(digit) == {c \in ChoiceInputs : Strip(c) = <<digit>>}

\* lines typed at the "Enter a new task" prompt
TitleInputs == {<<" ", "a", " ">>, <<"a", "|", "b">>, <<>>, <<" ">>}

\* lines typed at a task-number prompt when the list is ts
IndexInputs(ts) ==
    {IntText(i) : i \in (0 - 1)..(Len(ts) + 1)} \cup {<<"x">>}

\* lines typed at the status-number prompt
StatusInputs == {<<"0">>, <<"5">>, <<"6">>, <<"x">>}

\* a timestamp written by an earlier session, the day before
OldStamp ==
    <<"2", "0", "2", "6", "-", "1", "1", "-", "0", "5", " ",
      "2", "3", ":", "5", "9", ":", "5", "9">>

Bar == <<"|">>

NL == <<"\n">>

\* tasks.txt as the process may find it: absent; empty; holding
\* well-formed lines (one padded with blanks, one with an empty title, an
\* unknown status and the latest stamp, the last one without a newline) mixed with a
\* 2-field line, a blank line and a 5-field line; holding a line of
\* whitespace, a line of four empty fields and a 3-field line
InitFiles ==
    {[exists |-> FALSE, content |-> <<>>],
     [exists |-> TRUE, content |-> <<>>],
     [exists |-> TRUE, content |->
        <<" ", "p", " ">> \o Bar \o sOpen \o Bar \o OldStamp \o Bar \o OldStamp
            \o <<" ">> \o NL
        \o <<"b", "a", "d">> \o Bar \o sDone \o NL
        \o <<"q">> \o Bar \o sReview \o Bar \o OldStamp \o Bar \o Strftime(0) \o NL
        \o NL
        \o <<"u">> \o Bar \o <<"v">> \o Bar \o sOpen \o Bar \o OldStamp \o Bar
            \o OldStamp \o NL
        \o Bar \o <<"W", "i", "p">> \o Bar \o OldStamp \o Bar \o Strftime(MaxTime)],
     [exists |-> TRUE, content |->
        <<" ", "\t">> \o NL
        \o Bar \o Bar \o Bar \o NL
        \o <<"a">> \o Bar \o <<"b">> \o Bar \o <<"c">> \o NL]}

\* ---------------------------------------------------------------- process
\* handle_file has not run
NotCalled == [kind |-> "not called", path |-> <<>>]

Init ==
    /\ tasks = <<>>
    /\ file \in InitFiles
    /\ file0 = file
    /\ pc = "start"
    /\ clock = 0
    /\ inp = <<>>
    /\ out = <<>>
    /\ ret = NotCalled

\* main calling a load that creates the missing file
MainLoadCreating ==
    /\ pc = "start"
    /\ tasks' = load_tasks(tasks, file)
    /\ file' = [exists |-> TRUE, content |-> file.content]
    /\ pc' = "menu"
    /\ UNCHANGED <<file0, ret, clock, inp, out>>

\* main: load_tasks() finds no file, or reads the file to its end
MainLoad ==
    /\ pc = "start"
    /\ tasks' = load_tasks(tasks, file)
    /\ pc' = "menu"
    /\ UNCHANGED <<file, file0, ret, clock, inp, out>>

\* main: open() or the read in load_tasks raises; nothing catches it
MainLoadFails ==
    /\ pc = "start"
    /\ file.exists
    /\ pc' = "crashed"
    /\ UNCHANGED <<tasks, file, file0, ret, clock, inp, out>>

\* the loop of main: display_menu(), then the prompt
DisplayMenu ==
    /\ pc = "menu"
    /\ out' = display_menu
    /\ inp' = <<>>
    /\ pc' = "prompt"
    /\ UNCHANGED <<tasks, file, file0, ret, clock>>

\* choice "1": view_tasks
ChooseView ==
    /\ pc = "prompt"
    /\ \E c \in Typed("1") : inp' = <<c>>
    /\ out' = view_tasks(tasks)
    /\ pc' = "menu"
    /\ UNCHANGED <<tasks, file, file0, ret, clock>>

\* choice "2": add_task; the clock is read only for a title that is kept
ChooseAdd ==
    /\ pc = "prompt"
    /\ Len(tasks) < MaxTasks
    /\ \E c \in Typed("2"), line \in TitleInputs :
        \E now \in IF add_task(tasks, line, clock).timed
                   THEN clock..MaxTime ELSE {clock} :
            LET r == add_task(tasks, line, now)
            IN  /\ inp' = <<c, line>>
                /\ tasks' = r.tasks
                /\ out' = r.out
                /\ clock' = now
    /\ pc' = "menu"
    /\ UNCHANGED <<file, file0, ret>>

\* choice "3"
ChooseEdit ==
    /\ pc = "prompt"
    /\ \E c \in Typed("3") : inp' = <<c>>
    /\ out' = <<Msg("Editing task functionality not implemented yet.")>>
    /\ pc' = "menu"
    /\ UNCHANGED <<tasks, file, file0, ret, clock>>

\* choice "4": update_task_status; the status prompt is reached and the
\* clock is read only on the paths of the code that do so
ChooseUpdate ==
    /\ pc = "prompt"
    /\ \E c \in Typed("4"), l1 \in IndexInputs(tasks) :
        \E l2 \in IF update_task_status(tasks, l1, <<>>, clock).reads = 2
                  THEN StatusInputs ELSE {<<>>} :
        \E now \in IF update_task_status(tasks, l1, l2, clock).timed
                   THEN clock..MaxTime ELSE {clock} :
            LET r == update_task_status(tasks, l1, l2, now)
            IN  /\ inp' = <<c>> \o SubSeq(<<l1, l2>>, 1, r.reads)
                /\ tasks' = r.tasks
                /\ out' = r.out
                /\ clock' = now
    /\ pc' = "menu"
    /\ UNCHANGED <<file, file0, ret>>

\* choice "5": remove_task
ChooseRemove ==
    /\ pc = "prompt"
    /\ \E c \in Typed("5"), l1 \in IndexInputs(tasks) :
        LET r == remove_task(tasks, l1)
        IN  /\ inp' = <<c>> \o SubSeq(<<l1>>, 1, r.reads)
            /\ tasks' = r.tasks
            /\ out' = r.out
    /\ pc' = "menu"
    /\ UNCHANGED <<file, file0, ret, clock>>

\* choice "6" with the file opened for appending
ChooseExitAppending ==
    /\ pc = "prompt"
    /\ \E c \in Typed("6") : inp' = <<c>>
    /\ file' = [exists |-> TRUE, content |-> file.content \o SaveText(tasks)]
    /\ out' = <<Msg("Tasks saved, Goodbye!")>>
    /\ pc' = "exited"
    /\ UNCHANGED <<tasks, file0, ret, clock>>

\* choice "6": save_tasks() writes every line, then the loop breaks
ChooseExit ==
    /\ pc = "prompt"
    /\ \E c \in Typed("6") : inp' = <<c>>
    /\ file' = [exists |-> TRUE, content |-> SaveText(tasks)]
    /\ out' = <<Msg("Tasks saved, Goodbye!")>>
    /\ pc' = "exited"
    /\ UNCHANGED <<tasks, file0, ret, clock>>

\* choice "6", open(filename, "w") raises: the file is as it was
ChooseExitOpenFails ==
    /\ pc = "prompt"
    /\ \E c \in Typed("6") : inp' = <<c>>
    /\ out' = <<>>
    /\ pc' = "crashed"
    /\ UNCHANGED <<tasks, file, file0, ret, clock>>

\* choice "6", a write raises after open() emptied the file: the file
\* holds the lines of the tasks written before the failure
ChooseExitWriteFails ==
    /\ pc = "prompt"
    /\ \E c \in Typed("6") : inp' = <<c>>
    /\ \E k \in 0..(Len(tasks) - 1) :
        file' = [exists |-> TRUE, content |-> SaveText(SubSeq(tasks, 1, k))]
    /\ out' = <<>>
    /\ pc' = "crashed"
    /\ UNCHANGED <<tasks, file0, ret, clock>>

\* any other choice ending the loop
ChooseOtherBreaks ==
    /\ pc = "prompt"
    /\ \E c \in ChoiceInputs :
        /\ Strip(c) \notin {<<"1">>, <<"2">>, <<"3">>, <<"4">>, <<"5">>, <<"6">>}
        /\ inp' = <<c>>
    /\ out' = <<>>
    /\ pc' = "exited"
    /\ UNCHANGED <<tasks, file, file0, ret, clock>>

\* any other choice: no branch of the if/elif chain matches
ChooseOther ==
    /\ pc = "prompt"
    /\ \E c \in ChoiceInputs :
        /\ Strip(c) \notin {<<"1">>, <<"2">>, <<"3">>, <<"4">>, <<"5">>, <<"6">>}
        /\ inp' = <<c>>
    /\ out' = <<>>
    /\ pc' = "menu"
    /\ UNCHANGED <<tasks, file, file0, ret, clock>>

Next ==
    \/ MainLoad
    \/ MainLoadFails
    \/ DisplayMenu
    \/ ChooseView
    \/ ChooseAdd
    \/ ChooseEdit
    \/ ChooseUpdate
    \/ ChooseRemove
    \/ ChooseExit
    \/ ChooseExitOpenFails
    \/ ChooseExitWriteFails
    \/ ChooseOther

Spec == Init /\ [][Next]_vars

\* ------------------------------------------------- handle_file on its own
\* texts of at most n characters
Texts(n) == UNION {[1..k -> {"a", "|", "\n"}] : k \in 0..n}

\* the file handle_file may find: absent, or holding any short text
HandleFileInputs ==
    {[exists |-> FALSE, content |-> <<>>]}
        \cup {[exists |-> TRUE, content |-> t] : t \in Texts(MaxContent)}

InitHandleFile ==
    /\ tasks = <<>>
    /\ file \in HandleFileInputs
    /\ file0 = file
    /\ pc = "start"
    /\ clock = 0
    /\ inp = <<>>
    /\ out = <<>>
    /\ ret = NotCalled

\* a call of handle_file() whose try body runs to its return
HandleFileReturns ==
    /\ ret = NotCalled
    /\ LET r == handle_file(file, FileName, FALSE)
       IN  /\ file' = r.file
           /\ ret' = r.ret
           /\ out' = r.out
    /\ UNCHANGED <<tasks, file0, pc, clock, inp>>

\* a call of handle_file() whose try body raises
HandleFileRaises ==
    /\ ret = NotCalled
    /\ LET r == handle_file(file, FileName, TRUE)
       IN  /\ file' = r.file
           /\ ret' = r.ret
           /\ out' = r.out
    /\ UNCHANGED <<tasks, file0, pc, clock, inp>>

NextHandleFile ==
    \/ HandleFileReturns
    \/ HandleFileRaises

SpecHandleFile == InitHandleFile /\ [][NextHandleFile]_vars

\* ---------------------------------------------------------- vocabulary
\* the stripped menu choice among the input lines i of a step
ChoiceOf(i) == IF i = <<>> THEN <<>> ELSE Strip(i[1])

HasPipe(s) == \E i \in 1..Len(s) : s[i] = "|"

Pipes(s) == Cardinality({i \in 1..Len(s) : s[i] = "|"})

\* the four fields of a task joined by '|'
Joined(t) ==
    t.task \o Bar \o t.status \o Bar \o t.created_at \o Bar \o t.status_updated_at

LastOut(o) == IF o = <<>> THEN "" ELSE o[Len(o)].text

InvalidNumber == "Please enter a valid number."

\* ---------------------------------------------------------------- claims
\* C1: when the session has exited and no title of the list contains '|',
\* loading the file that save wrote into an empty list gives back the list:
\* as many tasks, in the same order, with the same four field values.
RoundTrip ==
    (pc = "exited" /\ \A i \in 1..Len(tasks) : ~HasPipe(tasks[i].task))
        => load_tasks(<<>>, file) = tasks

\* a saved list holding a task loaded from the file (empty title, unknown
\* status), and a task added in this session
RoundTripWitness ==
    /\ pc = "exited"
    /\ Len(tasks) >= 2
    /\ \A i \in 1..Len(tasks) : ~HasPipe(tasks[i].task)
    /\ \E i \in 1..Len(tasks) : tasks[i].task = <<>>
    /\ \E i \in 1..Len(tasks) : tasks[i].task = <<"a">>
    /\ load_tasks(<<>>, file) = tasks

\* C2: before exit the file is what it was at process start, whatever was
\* chosen, load included; the file differs from its start only after the
\* save step of choice 6 has run.
FileWrittenOnlyAtExit ==
    /\ pc \in {"start", "menu", "prompt"} => file = file0
    /\ file # file0 => pc \in {"exited", "crashed"} /\ ChoiceOf(inp) = <<"6">>

\* two tasks added and one of them updated in a session started without a
\* file: the file is still absent
FileWrittenOnlyAtExitWitness ==
    /\ pc = "menu"
    /\ ~file0.exists
    /\ ~file.exists
    /\ Len(tasks) = 2
    /\ ChoiceOf(inp) = <<"4">>
    /\ LastOut(out) = "Task status updated."

\* C3: Exited is reached only by choice 6, and then the file holds exactly
\* one line per task, in list order, each title|status|created_at|
\* status_updated_at, and nothing else.
ExitedFileIsTheList ==
    pc = "exited" =>
        /\ ChoiceOf(inp) = <<"6">>
        /\ file.exists
        /\ LET lines == FileLines(file.content)
           IN  /\ Len(lines) = Len(tasks)
               /\ \A i \in 1..Len(tasks) : lines[i] = Joined(tasks[i]) \o NL

\* exit over a file that held other content, with a changed list
ExitedFileIsTheListWitness ==
    /\ pc = "exited"
    /\ file0.exists
    /\ file0.content # <<>>
    /\ file # file0
    /\ Len(tasks) >= 2

\* the 1-based position typed in the input lines i of a step
PositionOf(i) == ParseInt(i[2])

\* C4: an update step with a valid position and a valid status choice
\* keeps the length of the list, every other task, and the title and
\* created_at of the task at that position.
UpdateChangesOnlyStatusFields ==
    [][(/\ pc = "prompt"
        /\ ChoiceOf(inp') = <<"4">>
        /\ Len(inp') = 3
        /\ PositionOf(inp').ok
        /\ PositionOf(inp').val \in 1..Len(tasks)
        /\ ParseInt(inp'[3]).ok
        /\ ParseInt(inp'[3]).val \in 1..Len(STATUSES))
       => LET pos == PositionOf(inp').val
          IN  /\ Len(tasks') = Len(tasks)
              /\ \A i \in 1..Len(tasks) : i # pos => tasks'[i] = tasks[i]
              /\ tasks'[pos].task = tasks[pos].task
              /\ tasks'[pos].created_at = tasks[pos].created_at]_vars

\* the second of three tasks has just been set to Done at a second later
\* than its creation
UpdateChangesOnlyStatusFieldsWitness ==
    /\ pc = "menu"
    /\ ChoiceOf(inp) = <<"4">>
    /\ Len(inp) = 3
    /\ PositionOf(inp).val = 2
    /\ ParseInt(inp[3]).val = 5
    /\ LastOut(out) = "Task status updated."
    /\ Len(tasks) = 3
    /\ tasks[2].status = sDone
    /\ tasks[2].status_updated_at # tasks[2].created_at

\* C5: a remove step with a valid position pos shortens the list by one,
\* keeps the tasks before pos where they are and moves each task after
\* pos one position down, fields unchanged.
RemoveShiftsLaterTasks ==
    [][(/\ pc = "prompt"
        /\ ChoiceOf(inp') = <<"5">>
        /\ Len(inp') = 2
        /\ PositionOf(inp').ok
        /\ PositionOf(inp').val \in 1..Len(tasks))
       => LET pos == PositionOf(inp').val
          IN  /\ Len(tasks') = Len(tasks) - 1
              /\ \A i \in 1..(pos - 1) : tasks'[i] = tasks[i]
              /\ \A i \in (pos + 1)..Len(tasks) : tasks'[i - 1] = tasks[i]]_vars

\* the second of three tasks has just been removed
RemoveShiftsLaterTasksWitness ==
    /\ pc = "menu"
    /\ ChoiceOf(inp) = <<"5">>
    /\ Len(inp) = 2
    /\ PositionOf(inp).val = 2
    /\ LastOut(out) = "Task removed successfully!"
    /\ Len(tasks) = 2

\* C6: an add step with a title that is not empty after trimming appends
\* one task: the earlier tasks stay, the new last task has the trimmed
\* title, status Open and created_at = status_updated_at.
AddAppendsOpenTask ==
    [][(/\ pc = "prompt"
        /\ ChoiceOf(inp') = <<"2">>
        /\ Len(inp') = 2
        /\ Strip(inp'[2]) # <<>>)
       => /\ Len(tasks') = Len(tasks) + 1
          /\ SubSeq(tasks', 1, Len(tasks)) = tasks
          /\ tasks'[Len(tasks')].task = Strip(inp'[2])
          /\ tasks'[Len(tasks')].status = sOpen
          /\ tasks'[Len(tasks')].created_at = tasks'[Len(tasks')].status_updated_at]_vars

\* a padded title has just been added behind an earlier task
AddAppendsOpenTaskWitness ==
    /\ pc = "menu"
    /\ ChoiceOf(inp) = <<"2">>
    /\ Len(inp) = 2
    /\ Strip(inp[2]) # <<>>
    /\ Strip(inp[2]) # inp[2]
    /\ Len(tasks) >= 2
    /\ LastOut(out) = "Task added successfully with status 'Open'."

\* C7: a remove or update step given a number outside 1..n as position, or
\* run on an empty list, leaves the list as it was and goes back to the
\* menu.
OutOfRangePositionIsNoOp ==
    [][(/\ pc = "prompt"
        /\ ChoiceOf(inp') \in {<<"4">>, <<"5">>}
        /\ \/ tasks = <<>>
           \/ /\ Len(inp') >= 2
              /\ PositionOf(inp').ok
              /\ PositionOf(inp').val \notin 1..Len(tasks))
       => /\ tasks' = tasks
          /\ pc' = "menu"]_vars

\* position 0 has just been given to remove on a list of two or more
OutOfRangePositionIsNoOpWitness ==
    /\ pc = "menu"
    /\ ChoiceOf(inp) = <<"5">>
    /\ Len(inp) = 2
    /\ PositionOf(inp).ok
    /\ PositionOf(inp).val = 0
    /\ Len(tasks) >= 2

\* C8: a remove or update step whose last prompt got a line that is not a
\* number reports it, leaves the list as it was and goes back to the menu.
NonNumericInputIsNoOp ==
    [][(/\ pc = "prompt"
        /\ ChoiceOf(inp') \in {<<"4">>, <<"5">>}
        /\ Len(inp') >= 2
        /\ ~ParseInt(inp'[Len(inp')]).ok)
       => /\ tasks' = tasks
          /\ pc' = "menu"
          /\ LastOut(out') = InvalidNumber]_vars

\* a valid task number, then a status line that is not a number, for a
\* task whose stamp is older than the clock
NonNumericInputIsNoOpWitness ==
    /\ pc = "menu"
    /\ ChoiceOf(inp) = <<"4">>
    /\ Len(inp) = 3
    /\ PositionOf(inp).ok
    /\ ~ParseInt(inp[3]).ok
    /\ LastOut(out) = InvalidNumber
    /\ tasks[PositionOf(inp).val].status_updated_at # Strftime(clock)

\* C9: no error ends the process: it is never in a state reached by an
\* exception that nothing caught.
NoErrorIsFatal == pc # "crashed"

\* C10: right after load the list holds exactly the lines of the file with
\* three '|', in file order, each stripped and cut at the '|'; every other
\* line is skipped.
LoadKeepsFourFieldLines ==
    (pc = "menu" /\ inp = <<>>) =>
        LET lines == IF file0.exists THEN FileLines(file0.content) ELSE <<>>
            kept  == SelectSeq(lines, LAMBDA l : Pipes(l) = 3)
        IN  /\ Len(tasks) = Len(kept)
            /\ \A i \in 1..Len(tasks) :
                /\ Joined(tasks[i]) = Strip(kept[i])
                /\ Pipes(Joined(tasks[i])) = 3
                /\ ~HasPipe(tasks[i].task)
                /\ ~HasPipe(tasks[i].status)
                /\ ~HasPipe(tasks[i].created_at)

\* three of six lines loaded
LoadKeepsFourFieldLinesWitness ==
    /\ pc = "menu"
    /\ inp = <<>>
    /\ file0.exists
    /\ Len(FileLines(file0.content)) = 6
    /\ Len(tasks) = 3

\* characters of the stamps in code point order
CharOrder ==
    <<" ", "-", "0", "1", "2", "3", "4", "5", "6", "7", "8", "9", ":">>

CodeRank(c) == CHOOSE i \in 1..Len(CharOrder) : CharOrder[i] = c

\* a <= b as Python compares two strings
RECURSIVE TextLeq(_, _)
TextLeq(a, b) ==
    IF a = <<>> THEN TRUE
    ELSE IF b = <<>> THEN FALSE
    ELSE IF Head(a) = Head(b) THEN TextLeq(Tail(a), Tail(b))
    ELSE CodeRank(Head(a)) < CodeRank(Head(b))

\* C11: status_updated_at changes exactly when status changes: a step
\* that changes a task's status stamps it with the time read, and a step
\* that leaves a task's status the same leaves its stamp the same.
StampChangesExactlyWithStatus ==
    [][(pc = "prompt" /\ Len(tasks') >= Len(tasks))
       => \A i \in 1..Len(tasks) :
            IF tasks'[i].status # tasks[i].status
            THEN tasks'[i].status_updated_at = Strftime(clock')
            ELSE tasks'[i].status_updated_at = tasks[i].status_updated_at]_vars

\* C12: every task of the list has one of the five status labels.
StatusIsOneOfFive ==
    \A i \in 1..Len(tasks) :
        \E k \in 1..Len(STATUSES) : tasks[i].status = STATUSES[k]

\* C13: an update step with a valid position and status leaves the task's
\* status_updated_at greater than or equal to what it was.
StampNeverGoesBack ==
    [][(/\ pc = "prompt"
        /\ ChoiceOf(inp') = <<"4">>
        /\ Len(inp') = 3
        /\ PositionOf(inp').ok
        /\ PositionOf(inp').val \in 1..Len(tasks)
        /\ ParseInt(inp'[3]).ok
        /\ ParseInt(inp'[3]).val \in 1..Len(STATUSES))
       => LET pos == PositionOf(inp').val
          IN  TextLeq(tasks[pos].status_updated_at,
                      tasks'[pos].status_updated_at)]_vars

\* C14: an update step with a valid position and a status number outside
\* 1..5 changes no task, prints the list and the statuses and nothing
\* after them, and goes back to the menu.
StatusOutOfRangeIsNoOp ==
    [][(/\ pc = "prompt"
        /\ ChoiceOf(inp') = <<"4">>
        /\ Len(inp') = 3
        /\ PositionOf(inp').ok
        /\ PositionOf(inp').val \in 1..Len(tasks)
        /\ ParseInt(inp'[3]).ok
        /\ ParseInt(inp'[3]).val \notin 1..Len(STATUSES))
       => /\ tasks' = tasks
          /\ pc' = "menu"
          /\ LastOut(out') = "{i}. {status}"
          /\ \A k \in 1..Len(out') : out'[k].text # "Task status updated."]_vars

\* status number 0 has just been given for the first of two or more tasks
StatusOutOfRangeIsNoOpWitness ==
    /\ pc = "menu"
    /\ ChoiceOf(inp) = <<"4">>
    /\ Len(inp) = 3
    /\ PositionOf(inp).val = 1
    /\ ParseInt(inp[3]).ok
    /\ ParseInt(inp[3]).val = 0
    /\ Len(tasks) >= 2
    /\ tasks[1].status # sDone

MenuChoices == {<<"1">>, <<"2">>, <<"3">>, <<"4">>, <<"5">>, <<"6">>}

\* C15: a menu line that is none of 1..6 changes neither the list nor the
\* file and does not end the loop; the next step shows the menu again and
\* waits for a choice with the list and the file as they were.
OtherChoiceIsNoOp ==
    [][/\ (pc = "prompt" /\ Len(inp') = 1 /\ ChoiceOf(inp') \notin MenuChoices)
            => (tasks' = tasks /\ file' = file /\ pc' = "menu")
       /\ (pc = "menu" /\ Len(inp) = 1 /\ ChoiceOf(inp) \notin MenuChoices)
            => /\ pc' = "prompt"
               /\ out' = display_menu
               /\ tasks' = tasks
               /\ file' = file]_vars

\* an empty line has just been typed at the menu prompt of a session with
\* tasks
OtherChoiceIsNoOpWitness ==
    /\ pc = "menu"
    /\ inp = <<<<>>>>
    /\ out = <<>>
    /\ tasks # <<>>

\* C16: an add step with a title that is empty after trimming leaves the
\* list as it was and goes back to the menu.
BlankTitleIsNoOp ==
    [][(/\ pc = "prompt"
        /\ ChoiceOf(inp') = <<"2">>
        /\ Len(inp') = 2
        /\ Strip(inp'[2]) = <<>>)
       => /\ tasks' = tasks
          /\ pc' = "menu"]_vars

\* a line of one blank has just been typed as the title
BlankTitleIsNoOpWitness ==
    /\ pc = "menu"
    /\ ChoiceOf(inp) = <<"2">>
    /\ Len(inp) = 2
    /\ inp[2] = <<" ">>
    /\ tasks # <<>>

\* C17: every task of the list has a title that is not empty.
TitleIsNonEmpty == \A i \in 1..Len(tasks) : tasks[i].task # <<>>

\* C18: a view step leaves the list as it was and prints, for an empty
\* list, the one line "No tasks found!", and otherwise a header and one
\* line per task, numbered from 1 in list order, with the task's fields.
ViewShowsTheListUnchanged ==
    [][(pc = "prompt" /\ ChoiceOf(inp') = <<"1">>)
       => /\ tasks' = tasks
          /\ pc' = "menu"
          /\ IF tasks = <<>>
             THEN out' = <<Msg("No tasks found!")>>
             ELSE /\ Len(out') = Len(tasks) + 1
                  /\ out'[1] = Msg("Your Tasks:")
                  /\ \A i \in 1..Len(tasks) :
                        out'[i + 1].args =
                            <<i, tasks[i].task, tasks[i].status,
                              tasks[i].created_at, tasks[i].status_updated_at>>]_vars

\* three tasks have just been listed
ViewShowsTheListUnchangedWitness ==
    /\ pc = "menu"
    /\ ChoiceOf(inp) = <<"1">>
    /\ Len(tasks) = 3
    /\ Len(out) = 4
    /\ out[4].args[1] = 3

\* C19: after handle_file the caller has a result and no exception: a
\* file that existed is as it was; with a path returned the file exists,
\* and is empty if it was absent; with None returned the failure was
\* printed and the file is as it was.
HandleFileEnsuresFile ==
    ret # NotCalled =>
        /\ pc # "crashed"
        /\ file0.exists => file = file0
        /\ ret.kind \in {"path", "none"}
        /\ ret.kind = "path" =>
            /\ ret.path = PathJoin(ScriptDir, FileName)
            /\ file.exists
            /\ ~file0.exists => file.content = <<>>
            /\ out = <<>>
        /\ ret.kind = "none" =>
            /\ file = file0
            /\ LastOut(out) = "Error handling file: {e}"

\* handle_file has returned the path of a file that held text
HandleFileEnsuresFileWitness ==
    /\ ret.kind = "path"
    /\ file0.exists
    /\ Len(file0.content) = MaxContent
    /\ file = file0

\* C20: when the session has exited, the next load of the written file
\* gives the saved tasks whose title holds no '|', fields and order as
\* saved, and none of the tasks whose title holds a '|'.
PipeTitleIsLostOnReload ==
    pc = "exited" =>
        load_tasks(<<>>, file)
            = SelectSeq(tasks, LAMBDA t : ~HasPipe(t.task))

\* a task titled a|b was saved in front of another task
PipeTitleIsLostOnReloadWitness ==
    /\ pc = "exited"
    /\ Len(tasks) = 2
    /\ tasks[1].task = <<"a", "|", "b">>
    /\ ~HasPipe(tasks[2].task)
    /\ Pipes(FileLines(file.content)[1]) = 4
    /\ load_tasks(<<>>, file) = <<tasks[2]>>

====
